---- MODULE Spec2Model ----
(***************************************************************************)
(* Frame scheduler of the YOLO26 vision page (src/main.js).                *)
(*                                                                         *)
(* The page is single threaded: every handler below runs to its next       *)
(* await without interleaving, so each action is one synchronous segment   *)
(* of a handler (an event listener, a requestAnimationFrame callback, or   *)
(* the continuation of an await).  The host (browser) decides when clicks, *)
(* visibility changes, animation frames, timers and promise settlements    *)
(* happen; those are the nondeterministic choices of Next.                 *)
(***************************************************************************)
EXTENDS Integers, Sequences, FiniteSets, TLC

(***************************************************************************)
(* Bounds of the model.                                                    *)
(***************************************************************************)
ClockStep == 1001       \* granularity of performance.now() in the model (ms)
MaxClockSteps == 1      \* the clock advances at most this many times
MaxInFlight == 2        \* processFrame passes that may be unsettled at once
MaxStarts == 1          \* startCamera calls awaiting getUserMedia at once
MaxChains == 2          \* requestAnimationFrame callbacks registered at once
MaxLeaked == 1          \* streams overwritten in video.srcObject, never stopped
MaxFrameCount == 2      \* cap of state.frameCount in Spec
MaxSamples == 1         \* cap of the latency buffer's length in Spec
MaxLatencyFrames == 11  \* cap of state.frameCount in SpecLatency
numClasses == 2         \* class scores of a slot (CONFIG.detection.numClasses)
maxDetections == 2      \* rows of a detection or pose output (CONFIG.detection)
numDetections == 2      \* rows of a segmentation output (parseSegmentation)
HalfStep == 500         \* milliseconds performance.now() advances by in SpecFps
MaxHalfSteps == 3       \* advances of performance.now() in SpecFps

(***************************************************************************)
(* Program constants.                                                      *)
(***************************************************************************)
FpsInterval == 1000     \* runDetectionLoop: now - lastFpsUpdate >= 1000
LatencyCapacity == 10   \* processFrame: recentInferenceTimes.length > 10
numKeypoints == 17      \* CONFIG.pose.numKeypoints
PoseStride == 57        \* parseDetections: offset = i * 57
SegStride == 38         \* parseSegmentation: offset = i * 38
NumMaskCoeffs == 32     \* parseSegmentation: for (j = 0; j < 32; j++)
maskSize == 160         \* parseSegmentation: maskSize = 160

VARIABLES
  \* the `state` object
  isRunning, isProcessing, animationId, frameCount, lastFpsUpdate,
  recentInferenceTimes, detectModel, poseModel, processor, segSession,
  enableDetect, enablePose, enableSegment,
  \* the host
  now,              \* performance.now()
  docHidden,        \* document.hidden
  hidRunning,       \* history: the page was hidden while isRunning was true
  rafQueue,         \* ids of the registered requestAnimationFrame callbacks
  srcObject,        \* elements.video.srcObject is a stream
  metaPending,      \* the video element will fire loadedmetadata
  metaWaiter,       \* a startCamera awaits video.onloadedmetadata
  camPending,       \* number of startCamera calls awaiting getUserMedia
  leaked,           \* streams acquired, no longer referenced, never stopped
  startBtnDisabled, \* elements.startBtn.disabled
  \* the coroutines
  loadPc,           \* position of loadModels
  passes,           \* the unsettled processFrame passes, oldest first
  \* the outputs
  canvas, fpsText, inferenceTimeText,
  \* one call of parseDetections
  threshold,        \* state.threshold, in hundredths
  width, height,    \* elements.canvas.width and .height as the call reads them
  detectOutput, poseOutput, segResults,   \* its arguments
  detections,       \* the sequence it returned
  id2label          \* state.detectModel.config.id2label || {}

stateVars == <<isRunning, isProcessing, animationId, frameCount, lastFpsUpdate,
               recentInferenceTimes>>
modelVars == <<detectModel, poseModel, processor, segSession>>
toggleVars == <<enableDetect, enablePose, enableSegment>>
hostVars == <<now, docHidden, hidRunning, rafQueue>>
camVars == <<srcObject, metaPending, metaWaiter, camPending, leaked>>
loadVars == <<loadPc, startBtnDisabled>>
outVars == <<canvas, fpsText, inferenceTimeText>>
decVars == <<threshold, width, height, detectOutput, poseOutput, segResults,
             detections, id2label>>

vars == <<stateVars, modelVars, toggleVars, hostVars, camVars, loadVars,
          passes, outVars, decVars>>

ModelStates == {"null", "ready", "disposed"}
LoadPcs == {"idle", "poll", "disposeDetect", "disposePose",
            "loadDetect", "loadPose", "loadProcessor", "loadLocal"}
PassPcs == {"processor", "seg", "models"}
CanvasStates == {"clear", "fresh", "stale"}

(***************************************************************************)
(* Helpers.                                                                *)
(***************************************************************************)
RemoveAt(s, i) == SubSeq(s, 1, i - 1) \o SubSeq(s, i + 1, Len(s))

RECURSIVE SumSeq(_)
SumSeq(s) == IF s = <<>> THEN 0 ELSE Head(s) + SumSeq(Tail(s))

\* Math.round(sum / len) for sum >= 0: the nearest integer, halves upwards
MathRoundDiv(sum, len) == (2 * sum + len) \div (2 * len)

\* requestAnimationFrame returns an id no registered callback has
NewId(q) == CHOOSE i \in 1..(Cardinality(q) + 1) :
              /\ i \notin q
              /\ \A j \in 1..(i - 1) : j \in q

(***************************************************************************)
(* The state after the module is evaluated: init() has run                 *)
(* loadModels('n') up to its first await (AutoModel.from_pretrained);      *)
(* nothing was running or loaded, so loadModels stopped, polled and        *)
(* disposed nothing and disabled the start button.                         *)
(***************************************************************************)
PageInit ==
  /\ isRunning = FALSE /\ isProcessing = FALSE /\ animationId = 0
  /\ frameCount = 0 /\ lastFpsUpdate = 0 /\ recentInferenceTimes = <<>>
  /\ detectModel = "null" /\ poseModel = "null" /\ processor = FALSE
  /\ segSession = FALSE
  /\ enableDetect = TRUE /\ enablePose = FALSE /\ enableSegment = FALSE
  /\ now = 0 /\ docHidden = FALSE /\ hidRunning = FALSE /\ rafQueue = {}
  /\ srcObject = FALSE /\ metaPending = FALSE /\ metaWaiter = FALSE
  /\ camPending = 0 /\ leaked = 0
  /\ startBtnDisabled = TRUE
  /\ loadPc = "loadDetect"
  /\ passes = <<>>
  /\ canvas = "clear" /\ fpsText = 0 /\ inferenceTimeText = 0

\* a head output that is null: the head is off or its inference failed
NoOutput == [present |-> FALSE]

\* state.threshold is 0.5 and parseDetections has not been called
Init ==
  /\ PageInit
  /\ threshold = 50
  /\ width = 0 /\ height = 0
  /\ detectOutput = NoOutput /\ poseOutput = NoOutput /\ segResults = NoOutput
  /\ detections = <<>>
  /\ id2label = <<>>

(***************************************************************************)
(* startCamera, up to `await navigator.mediaDevices.getUserMedia`.         *)
(***************************************************************************)
StartCameraCall ==
  /\ camPending < MaxStarts
  /\ camPending' = camPending + 1
  /\ UNCHANGED <<srcObject, metaPending, metaWaiter, leaked>>

(***************************************************************************)
(* stopCamera(keepProcessing).  It cancels the callback state.animationId  *)
(* names, stops the tracks of video.srcObject, clears isRunning (and       *)
(* isProcessing unless keepProcessing), clears the canvas and zeroes the   *)
(* published stats.  The fields `stopped` and `kept` of a pass are history *)
(* only: a stopCamera ran while the pass was unsettled, and it was a       *)
(* stopCamera(true) that found isProcessing true.                          *)
(***************************************************************************)
StopCamera(keepProcessing) ==
  /\ rafQueue' = IF animationId # 0 THEN rafQueue \ {animationId} ELSE rafQueue
  /\ animationId' = 0
  /\ srcObject' = FALSE
  /\ metaPending' = IF srcObject THEN FALSE ELSE metaPending
  /\ isRunning' = FALSE
  /\ isProcessing' = IF keepProcessing THEN isProcessing ELSE FALSE
  /\ canvas' = "clear"
  /\ fpsText' = 0
  /\ inferenceTimeText' = 0
  /\ passes' = [i \in DOMAIN passes |->
                 [passes[i] EXCEPT !.stopped = TRUE,
                                   !.kept = @ \/ (keepProcessing /\ isProcessing)]]

\* the variables StopCamera and StartCameraCall leave alone
StopStartFrame ==
  UNCHANGED <<frameCount, lastFpsUpdate, recentInferenceTimes, modelVars,
              toggleVars, decVars, now, docHidden, hidRunning, loadVars>>

(***************************************************************************)
(* runDetectionLoop.  `running` is state.isRunning as the call finds it    *)
(* and q the callbacks registered while it runs (the one that fired        *)
(* removed).                                                               *)
(***************************************************************************)
\* CanStartPass without the single-flight test
CanStartPass_IgnoreProcessing == detectModel # "null" /\ processor

CanStartPass == detectModel # "null" /\ processor /\ ~isProcessing

NewPass == [pc |-> "processor", start |-> now, stopped |-> FALSE,
            kept |-> FALSE, det |-> FALSE, pose |-> FALSE, seg |-> FALSE]

\* runDetectionLoop publishing only when more than 1000 ms have passed
RunDetectionLoop_StrictInterval(running, q) ==
  IF ~running
  THEN /\ rafQueue' = q
       /\ UNCHANGED <<animationId, frameCount, lastFpsUpdate, fpsText,
                      isProcessing, passes>>
  ELSE LET publish == now - lastFpsUpdate > FpsInterval
           start == CanStartPass
           id == NewId(q)
       IN /\ fpsText' = IF publish THEN frameCount ELSE fpsText
          /\ frameCount' = IF publish THEN 0 ELSE frameCount
          /\ lastFpsUpdate' = IF publish THEN now ELSE lastFpsUpdate
          /\ isProcessing' = IF start THEN TRUE ELSE isProcessing
          /\ passes' = IF start THEN Append(passes, NewPass) ELSE passes
          /\ Len(passes') <= MaxInFlight
          /\ Cardinality(q) < MaxChains
          /\ rafQueue' = q \cup {id}
          /\ animationId' = id

\* runDetectionLoop, called with state.isRunning as the caller left it and
\* the callbacks that stay registered
RunDetectionLoop(running, q) ==
  IF ~running
  THEN /\ rafQueue' = q
       /\ UNCHANGED <<animationId, frameCount, lastFpsUpdate, fpsText,
                      isProcessing, passes>>
  ELSE LET publish == now - lastFpsUpdate >= FpsInterval
           start == CanStartPass
           id == NewId(q)
       IN /\ fpsText' = IF publish THEN frameCount ELSE fpsText
          /\ frameCount' = IF publish THEN 0 ELSE frameCount
          /\ lastFpsUpdate' = IF publish THEN now ELSE lastFpsUpdate
          /\ isProcessing' = IF start THEN TRUE ELSE isProcessing
          /\ passes' = IF start THEN Append(passes, NewPass) ELSE passes
          /\ Len(passes') <= MaxInFlight
          /\ Cardinality(q) < MaxChains
          /\ rafQueue' = q \cup {id}
          /\ animationId' = id

\* the host runs a registered animation frame callback
AnimationFrame(id) ==
  /\ id \in rafQueue
  /\ RunDetectionLoop(isRunning, rafQueue \ {id})
  /\ UNCHANGED <<isRunning, recentInferenceTimes, modelVars, toggleVars, decVars,
                 now, docHidden, hidRunning, camVars, loadVars,
                 canvas, inferenceTimeText>>

(***************************************************************************)
(* startCamera, the continuations of its two awaits.                       *)
(***************************************************************************)
\* getUserMedia resolved: video.srcObject = stream; onloadedmetadata = resolve
GetUserMediaResolve ==
  /\ camPending > 0
  /\ camPending' = camPending - 1
  /\ leaked' = IF srcObject THEN leaked + 1 ELSE leaked
  /\ leaked' <= MaxLeaked
  /\ srcObject' = TRUE
  /\ metaPending' = TRUE
  /\ metaWaiter' = TRUE
  /\ UNCHANGED <<stateVars, modelVars, toggleVars, decVars, hostVars, loadVars,
                 passes, outVars>>

\* getUserMedia rejected: the catch block only reports
GetUserMediaReject ==
  /\ camPending > 0
  /\ camPending' = camPending - 1
  /\ UNCHANGED <<srcObject, metaPending, metaWaiter, leaked>>
  /\ UNCHANGED <<stateVars, modelVars, toggleVars, decVars, hostVars, loadVars,
                 passes, outVars>>

\* loadedmetadata fires; the startCamera whose resolver is installed sets
\* isRunning and calls runDetectionLoop
LoadedMetadata ==
  /\ metaPending
  /\ metaPending' = FALSE
  /\ metaWaiter' = FALSE
  /\ IF metaWaiter
     THEN /\ isRunning' = TRUE
          /\ RunDetectionLoop(TRUE, rafQueue)
     ELSE UNCHANGED <<isRunning, animationId, frameCount, lastFpsUpdate,
                      fpsText, isProcessing, passes, rafQueue>>
  /\ UNCHANGED <<recentInferenceTimes, modelVars, toggleVars, decVars, now, docHidden,
                 hidRunning, srcObject, camPending, leaked, loadVars,
                 canvas, inferenceTimeText>>

(***************************************************************************)
(* The listeners of initEventListeners.  Clicks and selections reach the   *)
(* page only while it is visible.                                          *)
(***************************************************************************)
StartBtnClick ==
  /\ ~docHidden
  /\ ~startBtnDisabled
  /\ IF isRunning
     THEN /\ StopCamera(FALSE)
          /\ UNCHANGED <<metaWaiter, camPending, leaked>>
     ELSE /\ StartCameraCall
          /\ UNCHANGED <<rafQueue, animationId, isRunning, isProcessing,
                         canvas, fpsText, inferenceTimeText, passes>>
  /\ StopStartFrame

\* flipCamera and the cameraSelect change listener: stopCamera(true); startCamera()
SwapCamera ==
  /\ ~docHidden
  /\ isRunning
  /\ StopCamera(TRUE)
  /\ camPending < MaxStarts
  /\ camPending' = camPending + 1
  /\ UNCHANGED <<metaWaiter, leaked>>
  /\ StopStartFrame

FlipCameraClick == SwapCamera

CameraSelectChange == SwapCamera

\* the visibilitychange listener without its `else if` branch
VisibilityChange_HideOnly ==
  /\ docHidden' = ~docHidden
  /\ hidRunning' = IF docHidden THEN FALSE ELSE isRunning
  /\ isProcessing' = IF isRunning /\ ~docHidden THEN TRUE ELSE isProcessing
  /\ UNCHANGED <<isRunning, animationId, frameCount, lastFpsUpdate,
                 recentInferenceTimes, modelVars, toggleVars, decVars, now, rafQueue,
                 camVars, loadVars, passes, outVars>>

\* the visibilitychange listener: hidden while Running sets isProcessing,
\* visible while Running clears it
VisibilityChange ==
  /\ docHidden' = ~docHidden
  /\ hidRunning' = IF docHidden THEN FALSE ELSE isRunning
  /\ isProcessing' = IF isRunning THEN ~docHidden ELSE isProcessing
  /\ UNCHANGED <<isRunning, animationId, frameCount, lastFpsUpdate,
                 recentInferenceTimes, modelVars, toggleVars, decVars, now, rafQueue,
                 camVars, loadVars, passes, outVars>>

\* the change listeners of the three head toggles
ToggleFrame ==
  UNCHANGED <<stateVars, modelVars, hostVars, camVars, loadVars, passes,
              outVars, decVars>>

ToggleDetect ==
  /\ ~docHidden
  /\ enableDetect' = ~enableDetect
  /\ UNCHANGED <<enablePose, enableSegment>>
  /\ ToggleFrame

TogglePose ==
  /\ ~docHidden
  /\ enablePose' = ~enablePose
  /\ UNCHANGED <<enableDetect, enableSegment>>
  /\ ToggleFrame

ToggleSegment ==
  /\ ~docHidden
  /\ enableSegment' = ~enableSegment
  /\ UNCHANGED <<enableDetect, enablePose>>
  /\ ToggleFrame

\* performance.now() advances
ClockAdvance ==
  /\ now + ClockStep <= MaxClockSteps * ClockStep
  /\ now' = now + ClockStep
  /\ UNCHANGED <<stateVars, modelVars, toggleVars, decVars, docHidden, hidRunning,
                 rafQueue, camVars, loadVars, passes, outVars>>

(***************************************************************************)
(* processFrame, one action per continuation, and the .catch/.finally      *)
(* runDetectionLoop chains to it.  The promise reactions that follow the   *)
(* last await of a pass run as microtasks, before the host runs another    *)
(* handler, so they belong to the action that settles the pass.            *)
(***************************************************************************)
\* .finally(() => { state.isProcessing = false; state.frameCount++; })
Finally(i) ==
  /\ isProcessing' = FALSE
  /\ frameCount' = frameCount + 1
  /\ passes' = RemoveAt(passes, i)

\* PushLatency evicting one sample too late
PushLatency_LateShift(buf, t) ==
  LET b == Append(buf, t)
  IN IF Len(b) > LatencyCapacity + 1 THEN Tail(b) ELSE b

\* recentInferenceTimes.push(t); if (length > 10) shift()
PushLatency(buf, t) ==
  LET b == Append(buf, t)
  IN IF Len(b) > LatencyCapacity THEN Tail(b) ELSE b

\* Math.round(avg), avg = reduce((a, b) => a + b, 0) / length
PublishedAverage(buf) == MathRoundDiv(SumSeq(buf), Len(buf))

\* the tail of processFrame: parse, account the latency, publish, draw
Complete(i) ==
  /\ recentInferenceTimes' = PushLatency(recentInferenceTimes, now - passes[i].start)
  /\ inferenceTimeText' = PublishedAverage(recentInferenceTimes')
  /\ canvas' = IF isRunning
               THEN (IF passes[i].stopped THEN "stale" ELSE "fresh")
               ELSE canvas
  /\ Finally(i)

\* promises.length === 0 && !segResults: clearRect and return
EarlyReturn(i) ==
  /\ canvas' = "clear"
  /\ Finally(i)
  /\ UNCHANGED <<recentInferenceTimes, inferenceTimeText>>

\* Throw with the settlement chained by .then: a rejected pass skips it
Throw_SkipFinally(i) ==
  /\ passes' = RemoveAt(passes, i)
  /\ UNCHANGED <<isProcessing, frameCount, recentInferenceTimes,
                 inferenceTimeText, canvas>>

\* Throw with a .finally that counts the frame but leaves the flag set
Throw_LeaveFlag(i) ==
  /\ frameCount' = frameCount + 1
  /\ passes' = RemoveAt(passes, i)
  /\ UNCHANGED <<isProcessing, recentInferenceTimes, inferenceTimeText,
                 canvas>>

\* the pass throws: .catch(console.error), then .finally
Throw(i) ==
  /\ Finally(i)
  /\ UNCHANGED <<recentInferenceTimes, inferenceTimeText, canvas>>

PassFrame ==
  UNCHANGED <<isRunning, animationId, lastFpsUpdate, modelVars, toggleVars, decVars,
              hostVars, camVars, loadVars, fpsText>>

\* state.detectModel(inputs) or state.poseModel(inputs) is a call of null
CallsNullModel ==
  \/ enableDetect /\ detectModel = "null"
  \/ enablePose /\ poseModel = "null"

\* state.processor(image) resolved; the enabled heads are called
ProcessorDone(i) ==
  /\ i \in DOMAIN passes
  /\ passes[i].pc = "processor"
  /\ IF CallsNullModel
     THEN Throw(i)
     ELSE IF enableSegment /\ segSession
     THEN /\ passes' = [passes EXCEPT ![i].pc = "seg",
                                      ![i].det = enableDetect,
                                      ![i].pose = enablePose]
          /\ UNCHANGED <<isProcessing, frameCount, recentInferenceTimes,
                         inferenceTimeText, canvas>>
     ELSE IF ~enableDetect /\ ~enablePose
     THEN EarlyReturn(i)
     ELSE /\ passes' = [passes EXCEPT ![i].pc = "models",
                                      ![i].det = enableDetect,
                                      ![i].pose = enablePose]
          /\ UNCHANGED <<isProcessing, frameCount, recentInferenceTimes,
                         inferenceTimeText, canvas>>
  /\ PassFrame

\* state.processor(image) rejected
ProcessorFail(i) ==
  /\ i \in DOMAIN passes
  /\ passes[i].pc = "processor"
  /\ Throw(i)
  /\ PassFrame

\* runSegmentation returned: its results (ok) or null (it caught an error)
SegmentationDone(i, ok) ==
  /\ i \in DOMAIN passes
  /\ passes[i].pc = "seg"
  /\ IF ~passes[i].det /\ ~passes[i].pose
     THEN IF ok THEN Complete(i) ELSE EarlyReturn(i)
     ELSE /\ passes' = [passes EXCEPT ![i].pc = "models", ![i].seg = ok]
          /\ UNCHANGED <<isProcessing, frameCount, recentInferenceTimes,
                         inferenceTimeText, canvas>>
  /\ PassFrame

\* results of Promise.all(promises): the head each element came from, in
\* the order the promises were pushed
Results(p) ==
  (IF p.det THEN <<"detect">> ELSE <<>>)
    \o (IF p.pose THEN <<"pose">> ELSE <<>>)

\* results[idx], undefined past the end of the array
ResultAt(results, idx) ==
  IF idx < Len(results) THEN results[idx + 1] ELSE "undefined"

\* detectOutput = state.enableDetect ? results[idx++] : null, with idx = 0
DetectArg(p) ==
  IF enableDetect THEN ResultAt(Results(p), 0) ELSE "null"

\* poseOutput = state.enablePose ? results[idx++] : null
PoseArg(p) ==
  IF enablePose
  THEN ResultAt(Results(p), IF enableDetect THEN 1 ELSE 0)
  ELSE "null"

\* parseDetections throws: detectOutput is the pose model's output, which
\* has no logits, so detectOutput.logits.sigmoid() is a TypeError.  A pose
\* decoder given the detection model's output reads the data of its first
\* tensor and does not throw; null and undefined are skipped.
ParseThrows(p) == DetectArg(p) = "pose"

\* Promise.all(promises) resolved
InferenceDone(i) ==
  /\ i \in DOMAIN passes
  /\ passes[i].pc = "models"
  /\ IF ParseThrows(passes[i]) THEN Throw(i) ELSE Complete(i)
  /\ PassFrame

\* Promise.all(promises) rejected
InferenceFail(i) ==
  /\ i \in DOMAIN passes
  /\ passes[i].pc = "models"
  /\ Throw(i)
  /\ PassFrame

(***************************************************************************)
(* loadModels.  One call is followed at a time: the model buttons are      *)
(* taken to be clicked only when no earlier loadModels is unfinished.      *)
(***************************************************************************)
\* after the drain loop: dispose, reset, start loading
LoadReset ==
  /\ detectModel' = "null"
  /\ poseModel' = "null"
  /\ processor' = FALSE
  /\ startBtnDisabled' = TRUE
  /\ loadPc' = "loadDetect"

LoadProceed ==
  /\ IF detectModel # "null"
     THEN /\ detectModel' = "disposed"
          /\ loadPc' = "disposeDetect"
          /\ UNCHANGED <<poseModel, processor, startBtnDisabled>>
     ELSE IF poseModel # "null"
     THEN /\ poseModel' = "disposed"
          /\ loadPc' = "disposePose"
          /\ UNCHANGED <<detectModel, processor, startBtnDisabled>>
     ELSE LoadReset
  /\ UNCHANGED segSession

\* a model button: loadModels(size), up to its first await
ModelBtnClick ==
  /\ ~docHidden
  /\ loadPc = "idle"
  /\ IF isRunning
     THEN StopCamera(TRUE)
     ELSE UNCHANGED <<rafQueue, animationId, srcObject, metaPending, isRunning,
                      isProcessing, canvas, fpsText, inferenceTimeText, passes>>
  /\ IF isProcessing
     THEN /\ loadPc' = "poll"
          /\ UNCHANGED <<modelVars, startBtnDisabled>>
     ELSE LoadProceed
  /\ UNCHANGED <<frameCount, lastFpsUpdate, recentInferenceTimes, toggleVars, decVars,
                 now, docHidden, hidRunning, metaWaiter, camPending, leaked>>

LoadFrame ==
  UNCHANGED <<stateVars, toggleVars, decVars, hostVars, passes, outVars>>

\* the 50 ms timer of the drain loop fires and finds isProcessing false
PollTimer ==
  /\ loadPc = "poll"
  /\ ~isProcessing
  /\ LoadProceed
  /\ UNCHANGED camVars
  /\ LoadFrame

DisposeDetectDone ==
  /\ loadPc = "disposeDetect"
  /\ IF poseModel # "null"
     THEN /\ poseModel' = "disposed"
          /\ loadPc' = "disposePose"
          /\ UNCHANGED <<detectModel, processor, startBtnDisabled>>
     ELSE LoadReset
  /\ UNCHANGED <<segSession, camVars>>
  /\ LoadFrame

DisposePoseDone ==
  /\ loadPc = "disposePose"
  /\ LoadReset
  /\ UNCHANGED <<segSession, camVars>>
  /\ LoadFrame

LoadDetectDone ==
  /\ loadPc = "loadDetect"
  /\ detectModel' = "ready"
  /\ loadPc' = "loadPose"
  /\ UNCHANGED <<poseModel, processor, segSession, startBtnDisabled, camVars>>
  /\ LoadFrame

LoadPoseDone ==
  /\ loadPc = "loadPose"
  /\ poseModel' = "ready"
  /\ loadPc' = "loadProcessor"
  /\ UNCHANGED <<detectModel, processor, segSession, startBtnDisabled, camVars>>
  /\ LoadFrame

\* the processor is loaded; loadLocalModels runs up to `await fetch`
LoadProcessorDone ==
  /\ loadPc = "loadProcessor"
  /\ processor' = TRUE
  /\ loadPc' = "loadLocal"
  /\ UNCHANGED <<detectModel, poseModel, segSession, startBtnDisabled, camVars>>
  /\ LoadFrame

\* loadLocalModels returned (found: the segmentation session was created);
\* the start button is enabled and startCamera() called
LoadLocalDone(found) ==
  /\ loadPc = "loadLocal"
  /\ segSession' = (segSession \/ found)
  /\ startBtnDisabled' = FALSE
  /\ loadPc' = "idle"
  /\ StartCameraCall
  /\ UNCHANGED <<detectModel, poseModel, processor>>
  /\ LoadFrame

\* a from_pretrained call rejected: the catch block only reports
LoadFail ==
  /\ loadPc \in {"loadDetect", "loadPose", "loadProcessor"}
  /\ loadPc' = "idle"
  /\ UNCHANGED <<modelVars, startBtnDisabled, camVars>>
  /\ LoadFrame

(***************************************************************************)
(* The specification of the scheduler: every listener, callback and        *)
(* continuation, with the three heads as the page loads them (detection    *)
(* on, pose and segmentation off, no local segmentation model).  A pass    *)
(* settles only while the counters stay within the bounds.                 *)
(***************************************************************************)
InScope ==
  /\ frameCount <= MaxFrameCount
  /\ Len(recentInferenceTimes) <= MaxSamples

Next ==
  \/ ClockAdvance
  \/ VisibilityChange
  \/ StartBtnClick
  \/ FlipCameraClick
  \/ CameraSelectChange
  \/ ModelBtnClick
  \/ GetUserMediaResolve
  \/ GetUserMediaReject
  \/ LoadedMetadata
  \/ \E id \in rafQueue : AnimationFrame(id)
  \/ \E i \in DOMAIN passes : ProcessorDone(i) /\ InScope'
  \/ \E i \in DOMAIN passes : ProcessorFail(i) /\ InScope'
  \/ \E i \in DOMAIN passes : InferenceDone(i) /\ InScope'
  \/ \E i \in DOMAIN passes : InferenceFail(i) /\ InScope'
  \/ PollTimer
  \/ DisposeDetectDone
  \/ DisposePoseDone
  \/ LoadDetectDone
  \/ LoadPoseDone
  \/ LoadProcessorDone
  \/ LoadLocalDone(FALSE)
  \/ LoadFail

Spec == Init /\ [][Next]_vars

(***************************************************************************)
(* The specification of the latency accounting: the page loads, init()'s   *)
(* loadModels starts the camera, passes run and succeed while the clock    *)
(* advances, and frameCount may grow until the buffer has evicted a sample.*)
(***************************************************************************)
InLatencyScope == frameCount <= MaxLatencyFrames

NextLatency ==
  \/ ClockAdvance
  \/ GetUserMediaResolve
  \/ LoadedMetadata
  \/ \E id \in rafQueue : AnimationFrame(id)
  \/ \E i \in DOMAIN passes : ProcessorDone(i) /\ InLatencyScope'
  \/ \E i \in DOMAIN passes : InferenceDone(i) /\ InLatencyScope'
  \/ LoadDetectDone
  \/ LoadPoseDone
  \/ LoadProcessorDone
  \/ LoadLocalDone(FALSE)

SpecLatency == Init /\ [][NextLatency]_vars

(***************************************************************************)
(* The specification of the heads: the page loads (with or without the     *)
(* local segmentation model), init()'s loadModels starts the camera, the   *)
(* user switches the three heads on and off, and every provider call of a  *)
(* pass may resolve or reject.                                             *)
(***************************************************************************)
InHeadsScope == frameCount <= MaxFrameCount

NextHeads ==
  \/ ClockAdvance
  \/ ToggleDetect
  \/ TogglePose
  \/ ToggleSegment
  \/ GetUserMediaResolve
  \/ LoadedMetadata
  \/ \E id \in rafQueue : AnimationFrame(id)
  \/ \E i \in DOMAIN passes : ProcessorDone(i) /\ InHeadsScope'
  \/ \E i \in DOMAIN passes : ProcessorFail(i) /\ InHeadsScope'
  \/ \E i \in DOMAIN passes, ok \in BOOLEAN :
        SegmentationDone(i, ok) /\ InHeadsScope'
  \/ \E i \in DOMAIN passes : InferenceDone(i) /\ InHeadsScope'
  \/ \E i \in DOMAIN passes : InferenceFail(i) /\ InHeadsScope'
  \/ LoadDetectDone
  \/ LoadPoseDone
  \/ LoadProcessorDone
  \/ \E found \in BOOLEAN : LoadLocalDone(found)

SpecHeads == Init /\ [][NextHeads]_vars

(***************************************************************************)
(* The specification of progress: the page loads, init()'s loadModels      *)
(* starts the camera, the page is hidden and shown, and every provider     *)
(* call of a pass may resolve or reject.  The host keeps running the       *)
(* registered animation frame callbacks, and provider calls settle.        *)
(***************************************************************************)
Tick == \E id \in rafQueue : AnimationFrame(id)

PassStep ==
  \/ \E i \in DOMAIN passes : ProcessorDone(i) /\ InScope'
  \/ \E i \in DOMAIN passes : ProcessorFail(i) /\ InScope'
  \/ \E i \in DOMAIN passes : InferenceDone(i) /\ InScope'
  \/ \E i \in DOMAIN passes : InferenceFail(i) /\ InScope'

NextLive ==
  \/ ClockAdvance
  \/ VisibilityChange
  \/ GetUserMediaResolve
  \/ LoadedMetadata
  \/ Tick
  \/ PassStep
  \/ LoadDetectDone
  \/ LoadPoseDone
  \/ LoadProcessorDone
  \/ LoadLocalDone(FALSE)

SpecLive ==
  Init /\ [][NextLive]_vars /\ WF_vars(Tick) /\ WF_vars(PassStep)

(***************************************************************************)
(* The specification of the drain wait of loadModels: a model button is    *)
(* clicked while a session runs, the camera is flipped, the page is hidden *)
(* and shown.  A pass starts only while frameCount is below its bound, and *)
(* every pass that started can settle.  The host keeps running the         *)
(* animation frame callbacks and the 50 ms timer of the wait, and provider *)
(* calls settle; nothing obliges the user to show a hidden page again.     *)
(***************************************************************************)
StartsInScope == Len(passes') > Len(passes) => frameCount < MaxFrameCount

DrainTick == \E id \in rafQueue : AnimationFrame(id) /\ StartsInScope

DrainPassStep ==
  \/ \E i \in DOMAIN passes : ProcessorDone(i)
  \/ \E i \in DOMAIN passes : ProcessorFail(i)
  \/ \E i \in DOMAIN passes : InferenceDone(i)
  \/ \E i \in DOMAIN passes : InferenceFail(i)

NextDrain ==
  \/ VisibilityChange
  \/ FlipCameraClick
  \/ ModelBtnClick
  \/ GetUserMediaResolve
  \/ LoadedMetadata /\ StartsInScope
  \/ DrainTick
  \/ DrainPassStep
  \/ PollTimer
  \/ DisposeDetectDone
  \/ DisposePoseDone
  \/ LoadDetectDone
  \/ LoadPoseDone
  \/ LoadProcessorDone
  \/ LoadLocalDone(FALSE)

SpecDrain ==
  Init /\ [][NextDrain]_vars
    /\ WF_vars(DrainTick) /\ WF_vars(DrainPassStep) /\ WF_vars(PollTimer)

(***************************************************************************)
(* The specification of the FPS sample: performance.now() advances by     *)
(* half the publication interval, so that a tick can find now -            *)
(* lastFpsUpdate below, at and above 1000 ms, while init()'s session runs  *)
(* its passes.                                                             *)
(***************************************************************************)
ClockHalfAdvance ==
  /\ now + HalfStep <= MaxHalfSteps * HalfStep
  /\ now' = now + HalfStep
  /\ UNCHANGED <<stateVars, modelVars, toggleVars, decVars, docHidden, hidRunning,
                 rafQueue, camVars, loadVars, passes, outVars>>

NextFps ==
  \/ ClockHalfAdvance
  \/ GetUserMediaResolve
  \/ LoadedMetadata
  \/ Tick
  \/ PassStep
  \/ LoadDetectDone
  \/ LoadPoseDone
  \/ LoadProcessorDone
  \/ LoadLocalDone(FALSE)

SpecFps == Init /\ [][NextFps]_vars

(***************************************************************************)
(* The decoders: parseDetections and parseSegmentation.                    *)
(*                                                                         *)
(* Every number of a head output (score, normalized coordinate, class id,  *)
(* keypoint confidence) and state.threshold are counted in hundredths:     *)
(* 0.5 is 50.  A pixel length is the product of a normalized coordinate    *)
(* and a canvas dimension; box and keypoint coordinates are counted in     *)
(* two-hundredths of a pixel, so that (cx - w/2) * width is the integer    *)
(* (2 * cx - w) * width.  The arithmetic is exact.  A typed array is a     *)
(* function on 0 .. length - 1.                                            *)
(***************************************************************************)
\* whole pixels in the unit of box coordinates
Px(n) == 200 * n

\* maxScore >= state.threshold, score >= state.threshold
Admits_Strict(score, thr) == score > thr

Admits(score, thr) == score >= thr

\* `if (score > maxScore)` of the class scan
Better_OrEqual(score, maxScore) == score >= maxScore

Better(score, maxScore) == score > maxScore

\* the class scan of slot i from class j on: <<maxScore, maxClass>>
RECURSIVE ClassScan(_, _, _, _, _)
ClassScan(scores, i, j, maxScore, maxClass) ==
  IF j >= numClasses THEN <<maxScore, maxClass>>
  ELSE LET score == scores[i * numClasses + j]
       IN IF Better(score, maxScore)
          THEN ClassScan(scores, i, j + 1, score, j)
          ELSE ClassScan(scores, i, j + 1, maxScore, maxClass)

\* box: [(cx - w/2) * width, (cy - h/2) * height, w * width, h * height]
CenterSizeBox_NoHalf(cx, cy, w, h, W, H) ==
  <<2 * (cx - w) * W, 2 * (cy - h) * H, 2 * w * W, 2 * h * H>>

CenterSizeBox(cx, cy, w, h, W, H) ==
  <<(2 * cx - w) * W, (2 * cy - h) * H, 2 * w * W, 2 * h * H>>

\* COCO_CLASSES; the name of class c is COCO_CLASSES[c + 1]
COCO_CLASSES ==
  <<"person", "bicycle", "car", "motorcycle", "airplane", "bus", "train",
    "truck", "boat", "traffic light", "fire hydrant", "stop sign",
    "parking meter", "bench", "bird", "cat", "dog", "horse", "sheep", "cow",
    "elephant", "bear", "zebra", "giraffe", "backpack", "umbrella",
    "handbag", "tie", "suitcase", "frisbee", "skis", "snowboard",
    "sports ball", "kite", "baseball bat", "baseball glove", "skateboard",
    "surfboard", "tennis racket", "bottle", "wine glass", "cup", "fork",
    "knife", "spoon", "bowl", "banana", "apple", "sandwich", "orange",
    "broccoli", "carrot", "hot dog", "pizza", "donut", "cake", "chair",
    "couch", "potted plant", "bed", "dining table", "toilet", "tv",
    "laptop", "mouse", "remote", "keyboard", "cell phone", "microwave",
    "oven", "toaster", "sink", "refrigerator", "book", "clock", "vase",
    "scissors", "teddy bear", "hair drier", "toothbrush">>

\* the left operand of `||` is taken: the entry of key c is there and is
\* not the empty string
Truthy(table, c) == c \in DOMAIN table /\ table[c] # ""

\* COCO_CLASSES[c] || `Class ${c}`
TableLabel(c) ==
  IF Truthy(COCO_CLASSES, c + 1) THEN COCO_CLASSES[c + 1]
  ELSE "Class " \o ToString(c)

\* the label with the class-name table consulted before the override
Label_TableFirst(map, c) ==
  IF Truthy(COCO_CLASSES, c + 1) THEN COCO_CLASSES[c + 1]
  ELSE IF Truthy(map, c) THEN map[c]
  ELSE "Class " \o ToString(c)

\* id2label[maxClass] || COCO_CLASSES[maxClass] || `Class ${maxClass}`
Label(map, c) == IF Truthy(map, c) THEN map[c] ELSE TableLabel(c)

\* the object loop from slot i on
RECURSIVE ObjectRows(_, _, _, _, _)
ObjectRows(out, i, thr, W, H) ==
  IF i >= maxDetections THEN <<>>
  ELSE LET m == ClassScan(out.scores, i, 0, 0, 0)
           offset == i * 4
           cx == out.boxes[offset]
           cy == out.boxes[offset + 1]
           w == out.boxes[offset + 2]
           h == out.boxes[offset + 3]
           rest == ObjectRows(out, i + 1, thr, W, H)
       IN IF Admits(m[1], thr)
          THEN <<[type |-> "object",
                  box |-> CenterSizeBox(cx, cy, w, h, W, H),
                  score |-> m[1],
                  classId |-> m[2],
                  label |-> Label(id2label, m[2])]>> \o rest
          ELSE rest

\* the keypoint loop of the row at offset, from keypoint k on, with the
\* keypoints below the visibility threshold dropped
RECURSIVE Keypoints_DropLow(_, _, _, _, _)
Keypoints_DropLow(data, offset, k, W, H) ==
  IF k >= numKeypoints THEN <<>>
  ELSE LET kOffset == offset + 6 + k * 3
           rest == Keypoints_DropLow(data, offset, k + 1, W, H)
       IN IF data[kOffset + 2] < 30 THEN rest
          ELSE <<[x |-> 2 * data[kOffset] * W,
                  y |-> 2 * data[kOffset + 1] * H,
                  confidence |-> data[kOffset + 2]]>> \o rest

\* the keypoint loop of the row at offset, from keypoint k on
RECURSIVE Keypoints(_, _, _, _, _)
Keypoints(data, offset, k, W, H) ==
  IF k >= numKeypoints THEN <<>>
  ELSE LET kOffset == offset + 6 + k * 3
       IN <<[x |-> 2 * data[kOffset] * W,
             y |-> 2 * data[kOffset + 1] * H,
             confidence |-> data[kOffset + 2]]>>
            \o Keypoints(data, offset, k + 1, W, H)

\* box: [x1 * width, y1 * height, (x2 - x1) * width, (y2 - y1) * height]
CornerBox(x1, y1, x2, y2, W, H) ==
  <<2 * x1 * W, 2 * y1 * H, 2 * (x2 - x1) * W, 2 * (y2 - y1) * H>>

\* the pose loop from row i on
RECURSIVE PoseRows(_, _, _, _, _)
PoseRows(out, i, thr, W, H) ==
  IF i >= maxDetections THEN <<>>
  ELSE LET data == out.data
           offset == i * PoseStride
           score == data[offset + 4]
           rest == PoseRows(out, i + 1, thr, W, H)
       IN IF Admits(score, thr)
          THEN <<[type |-> "pose",
                  box |-> CornerBox(data[offset], data[offset + 1],
                                    data[offset + 2], data[offset + 3], W, H),
                  score |-> score,
                  keypoints |-> Keypoints(data, offset, 0, W, H)]>> \o rest
          ELSE rest

\* Math.round of a number v >= 0 given in hundredths
MathRound(v) == (v + 50) \div 100

\* `if (score < state.threshold) continue` with the test inverted
Skips_Inverted(score, thr) == score >= thr

\* `if (score < state.threshold) continue`
Skips(score, thr) == score < thr

\* data[k] is a number: k is inside the typed array.  A read past its end
\* gives undefined.
Has(data, k) == k \in DOMAIN data

\* data[k], or undefined
Read(data, k) == IF Has(data, k) THEN data[k] ELSE "undefined"

\* maskCoeffs of the row at offset
MaskCoeffs(data, offset) ==
  [j \in 1..NumMaskCoeffs |-> Read(data, offset + 6 + (j - 1))]

\* `if (score < state.threshold) continue` on data[k]: undefined <
\* threshold is false, so a row read past the end is not skipped
SkipsRow(data, k, thr) == Has(data, k) /\ Skips(data[k], thr)

\* box of parseSegmentation; arithmetic on undefined gives NaN
SegmentBox(data, offset, canvasWidth, canvasHeight) ==
  IF \A c \in 0..3 : Has(data, offset + c)
  THEN CornerBox(data[offset], data[offset + 1], data[offset + 2],
                 data[offset + 3], canvasWidth, canvasHeight)
  ELSE <<IF Has(data, offset) THEN 2 * data[offset] * canvasWidth
         ELSE "NaN",
         IF Has(data, offset + 1) THEN 2 * data[offset + 1] * canvasHeight
         ELSE "NaN",
         "NaN", "NaN">>

\* the loop of parseSegmentation from row i on
RECURSIVE SegmentRows(_, _, _, _, _)
SegmentRows(seg, i, thr, canvasWidth, canvasHeight) ==
  IF i >= numDetections THEN <<>>
  ELSE LET data == seg.detections
           offset == i * SegStride
           score == Read(data, offset + 4)
           classId == IF Has(data, offset + 5)
                      THEN MathRound(data[offset + 5]) ELSE "NaN"
           rest == SegmentRows(seg, i + 1, thr, canvasWidth, canvasHeight)
       IN IF SkipsRow(data, offset + 4, thr) THEN rest
          ELSE <<[type |-> "segment",
                  box |-> SegmentBox(data, offset, canvasWidth, canvasHeight),
                  score |-> score,
                  classId |-> classId,
                  label |-> IF Has(data, offset + 5) THEN TableLabel(classId)
                            ELSE "Class NaN",
                  maskCoeffs |-> MaskCoeffs(data, offset),
                  maskProtos |-> seg.masks,
                  maskSize |-> maskSize]>> \o rest

\* parseSegmentation: maskData.data throws when the prototype output is
\* undefined; the catch returns the detections pushed so far, none
ParseSegmentation(seg, thr, canvasWidth, canvasHeight) ==
  IF seg.masks.present
  THEN SegmentRows(seg, 0, thr, canvasWidth, canvasHeight)
  ELSE <<>>

\* parseDetections with the pose detections pushed before the object ones
ParseDetections_PoseFirst(dOut, pOut, seg, thr, W, H) ==
  (IF pOut.present THEN PoseRows(pOut, 0, thr, W, H) ELSE <<>>)
    \o (IF dOut.present THEN ObjectRows(dOut, 0, thr, W, H) ELSE <<>>)
    \o (IF seg.present THEN ParseSegmentation(seg, thr, W, H) ELSE <<>>)

\* parseDetections: object, then pose, then segmentation detections
ParseDetections(dOut, pOut, seg, thr, W, H) ==
  (IF dOut.present THEN ObjectRows(dOut, 0, thr, W, H) ELSE <<>>)
    \o (IF pOut.present THEN PoseRows(pOut, 0, thr, W, H) ELSE <<>>)
    \o (IF seg.present THEN ParseSegmentation(seg, thr, W, H) ELSE <<>>)

\* d.type === t, for the filters of draw
IsType(d, t) == d.type = t

\* draw: the detections in the order they are painted
DrawOrder(dets) ==
  SelectSeq(dets, LAMBDA d : IsType(d, "segment"))
    \o SelectSeq(dets, LAMBDA d : IsType(d, "object"))
    \o SelectSeq(dets, LAMBDA d : IsType(d, "pose"))

\* CONFIG.skeleton: the bones, as pairs of keypoint indices
skeleton ==
  <<<<0, 1>>, <<0, 2>>, <<1, 3>>, <<2, 4>>,
    <<5, 6>>, <<5, 7>>, <<7, 9>>, <<6, 8>>, <<8, 10>>,
    <<5, 11>>, <<6, 12>>, <<11, 12>>,
    <<11, 13>>, <<13, 15>>, <<12, 14>>, <<14, 16>>>>

\* CONFIG.pose.threshold, 0.3 in hundredths
PoseVisibility == 30

\* the test of a bone with `||` in place of `&&`
BoneDrawn_Either(kpA, kpB) ==
  kpA.confidence >= PoseVisibility \/ kpB.confidence >= PoseVisibility

\* kpA.confidence >= CONFIG.pose.threshold && kpB.confidence >= ...
BoneDrawn(kpA, kpB) ==
  kpA.confidence >= PoseVisibility /\ kpB.confidence >= PoseVisibility

\* drawPoseDetection: the bones stroked for a pose detection, in order
DrawnBones(det) ==
  SelectSeq(skeleton, LAMBDA b : BoneDrawn(det.keypoints[b[1] + 1],
                                           det.keypoints[b[2] + 1]))

\* ctx.fillStyle = color + '40': the alpha byte of the fill, of 255
FillAlpha == 64

\* drawSegmentationMask: what is painted for a segmentation detection, the
\* rounded rectangle of its box filled at one opacity and stroked; maskCoeffs,
\* maskProtos and maskSize are not read
DrawSegmentationMask(det) ==
  [shape |-> "roundRect", rect |-> det.box, alpha |-> FillAlpha,
   border |-> det.box]

(***************************************************************************)
(* The head outputs a call of parseDetections may be given.  The slots of  *)
(* a detection output cycle through four rows of class scores (all zero,   *)
(* all equal, the last class best, the first class best) and two boxes;    *)
(* the rows of a pose output have scores that alternate or are all equal,  *)
(* and 17 keypoints whose confidences alternate around the visibility      *)
(* threshold; the rows of a segmentation output have such scores too, and  *)
(* a class field that is not a whole number.                               *)
(***************************************************************************)
RowPatterns == <<"zeros", "tie", "rising", "low">>

ClassRow(pat, j) ==
  CASE pat = "zeros" -> 0
    [] pat = "tie" -> 70
    [] pat = "rising" -> (IF j = numClasses - 1 THEN 70 ELSE 50)
    [] pat = "low" -> (IF j = 0 THEN 50 ELSE 0)

BoxRow(i, b) ==
  IF (i + b) % 2 = 0 THEN <<50, 50, 20, 40>> ELSE <<30, 60, 40, 20>>

DetectOutputs ==
  {NoOutput} \cup
  {[present |-> TRUE,
    scores |-> [k \in 0..(maxDetections * numClasses - 1) |->
                  ClassRow(RowPatterns[((k \div numClasses + s) % 4) + 1],
                           k % numClasses)],
    boxes |-> [k \in 0..(4 * maxDetections - 1) |->
                 BoxRow(k \div 4, b)[(k % 4) + 1]]] :
     s \in 0..3, b \in {0, 1}}

\* the score of row r: 50 and 70 in turn (p = 0, 1) or always 70 (p = 2)
RowScore(r, p) == IF p < 2 /\ (r + p) % 2 = 0 THEN 50 ELSE 70

PoseField(r, c, score, kp) ==
  IF c < 4 THEN <<10, 20, 60, 80>>[c + 1]
  ELSE IF c = 4 THEN score
  ELSE IF c = 5 THEN 0
  ELSE LET q == (c - 6) \div 3
       IN CASE (c - 6) % 3 = 0 -> (5 * q + 10 * r) % 100
            [] (c - 6) % 3 = 1 -> (3 * q) % 100
            [] (c - 6) % 3 = 2 -> (IF (q + kp) % 2 = 0 THEN 20 ELSE 90)

PoseOutputs ==
  {NoOutput} \cup
  {[present |-> TRUE,
    data |-> [k \in 0..(maxDetections * PoseStride - 1) |->
                PoseField(k \div PoseStride, k % PoseStride,
                          RowScore(k \div PoseStride, p), kp)]] :
     p \in 0..2, kp \in {0, 1}}

SegField(r, c, score) ==
  IF c < 4 THEN <<20, 10, 70, 90>>[c + 1]
  ELSE IF c = 4 THEN score
  ELSE IF c = 5 THEN (IF r % 2 = 0 THEN 40 ELSE 160)
  ELSE (7 * (c - 6) + r) % 100

\* the prototype output: k prototypes on the 160 x 160 grid
Prototypes(k) == [present |-> TRUE, dims |-> <<1, k, maskSize, maskSize>>]

SegResults ==
  {NoOutput} \cup
  {[present |-> TRUE,
    detections |-> [k \in 0..(numDetections * SegStride - 1) |->
                      SegField(k \div SegStride, k % SegStride,
                               RowScore(k \div SegStride, p))],
    masks |-> Prototypes(NumMaskCoeffs)] :
     p \in 0..2}

FrameSizes == {<<640, 640>>, <<640, 480>>}

\* the positions of the threshold slider
SliderValues == {0, 50, 60}

InitDecode ==
  /\ PageInit
  /\ threshold = 50
  /\ \E size \in FrameSizes : width = size[1] /\ height = size[2]
  /\ detectOutput \in DetectOutputs
  /\ poseOutput \in PoseOutputs
  /\ segResults \in SegResults
  /\ detections = <<>>
  /\ id2label = <<>>

DecodeFrame ==
  UNCHANGED <<stateVars, modelVars, toggleVars, hostVars, camVars, loadVars,
              passes, outVars>>

\* the input listener of the threshold slider: state.threshold = value / 100
ThresholdInput ==
  /\ ~docHidden
  /\ \E value \in SliderValues : threshold' = value
  /\ UNCHANGED <<width, height, detectOutput, poseOutput, segResults,
                 detections, id2label>>
  /\ DecodeFrame

\* processFrame: detections = parseDetections(detectOutput, poseOutput,
\* segResults)
ParseFrame ==
  /\ detections' = ParseDetections(detectOutput, poseOutput, segResults,
                                   threshold, width, height)
  /\ UNCHANGED <<threshold, width, height, detectOutput, poseOutput,
                 segResults, id2label>>
  /\ DecodeFrame

NextDecode ==
  \/ ThresholdInput
  \/ ParseFrame

SpecDecode == InitDecode /\ [][NextDecode]_vars

(***************************************************************************)
(* The decoders under each id2label a model configuration may carry: none  *)
(* (the `|| {}` of parseDetections), a name for every class, and a name    *)
(* for class 0 only.                                                       *)
(***************************************************************************)
Id2Labels ==
  {<<>>,
   [c \in 0..(numClasses - 1) |-> "label_" \o ToString(c)],
   [c \in {0} |-> "pedestrian"]}

InitLabel ==
  /\ PageInit
  /\ threshold = 50
  /\ \E size \in FrameSizes : width = size[1] /\ height = size[2]
  /\ detectOutput \in DetectOutputs
  /\ poseOutput = NoOutput
  /\ segResults \in SegResults
  /\ detections = <<>>
  /\ id2label \in Id2Labels

SpecLabel == InitLabel /\ [][NextDecode]_vars

(***************************************************************************)
(* The decoders on head outputs whose box fields are not those of a        *)
(* rectangle: a detection slot with a negative width field, pose and       *)
(* segmentation rows whose corner fields have x2 < x1 or y2 < y1.          *)
(***************************************************************************)
NegativeSizeOutputs ==
  {[d EXCEPT !.boxes = [k \in DOMAIN d.boxes |->
                          <<50, 50, -20, 40>>[(k % 4) + 1]]] :
     d \in DetectOutputs \ {NoOutput}}

InvertedPoseOutputs ==
  {[o EXCEPT !.data = [k \in DOMAIN o.data |->
                         IF k % PoseStride < 4
                         THEN <<60, 20, 10, 80>>[(k % PoseStride) + 1]
                         ELSE o.data[k]]] :
     o \in PoseOutputs \ {NoOutput}}

InvertedSegResults ==
  {[r EXCEPT !.detections = [k \in DOMAIN r.detections |->
                               IF k % SegStride < 4
                               THEN <<20, 90, 70, 10>>[(k % SegStride) + 1]
                               ELSE r.detections[k]]] :
     r \in SegResults \ {NoOutput}}

InitBoxes ==
  /\ PageInit
  /\ threshold = 50
  /\ \E size \in FrameSizes : width = size[1] /\ height = size[2]
  /\ detectOutput \in {NoOutput} \cup NegativeSizeOutputs
  /\ poseOutput \in {NoOutput} \cup InvertedPoseOutputs
  /\ segResults \in {NoOutput} \cup InvertedSegResults
  /\ detections = <<>>
  /\ id2label = <<>>

SpecBoxes == InitBoxes /\ [][NextDecode]_vars

(***************************************************************************)
(* The decoders on segmentation outputs that do not have the layout        *)
(* parseSegmentation expects: a detection tensor one row short, no         *)
(* prototype output, and a prototype output of 31 prototypes for the 32    *)
(* coefficients of a row.                                                  *)
(***************************************************************************)
ShortSegResults ==
  {[r EXCEPT !.detections =
       [k \in 0..((numDetections - 1) * SegStride - 1) |-> r.detections[k]]] :
     r \in SegResults \ {NoOutput}}

NoPrototypeSegResults ==
  {[r EXCEPT !.masks = NoOutput] : r \in SegResults \ {NoOutput}}

FewPrototypeSegResults ==
  {[r EXCEPT !.masks = Prototypes(NumMaskCoeffs - 1)] :
     r \in SegResults \ {NoOutput}}

\* segResults does not have the layout (1, 300, 38) and (1, 32, 160, 160)
Malformed(seg) ==
  /\ seg.present
  /\ \/ ~seg.masks.present
     \/ seg.masks.dims[2] # NumMaskCoeffs
     \/ \E k \in 0..(numDetections * SegStride - 1) : ~Has(seg.detections, k)

InitLayout ==
  /\ PageInit
  /\ threshold = 50
  /\ \E size \in FrameSizes : width = size[1] /\ height = size[2]
  /\ detectOutput \in DetectOutputs
  /\ poseOutput \in PoseOutputs
  /\ segResults \in ShortSegResults \cup NoPrototypeSegResults
                      \cup FewPrototypeSegResults
  /\ detections = <<>>
  /\ id2label = <<>>

SpecLayout == InitLayout /\ [][NextDecode]_vars

TypeOK ==
  /\ isRunning \in BOOLEAN /\ isProcessing \in BOOLEAN
  /\ animationId \in 0..(MaxChains + 1)
  /\ rafQueue \subseteq 1..(MaxChains + 1)
  /\ frameCount \in Nat /\ lastFpsUpdate \in Nat /\ now \in Nat
  /\ detectModel \in ModelStates /\ poseModel \in ModelStates
  /\ loadPc \in LoadPcs
  /\ canvas \in CanvasStates
  /\ \A i \in DOMAIN passes : passes[i].pc \in PassPcs

(***************************************************************************)
(* Properties.                                                             *)
(***************************************************************************)
PassStarted == Len(passes') > Len(passes)
PassSettled == Len(passes') < Len(passes)
StopCameraRan == isRunning /\ ~isRunning'

\* C1: in every reachable state at most one processFrame pass has started
\* and not yet settled
C1_SingleFlight == Len(passes) <= 1

\* C2: stopCamera(true) that finds isProcessing true leaves the scheduler
\* Idle with isProcessing still true, and while a pass that was in flight
\* at that call is unsettled nothing but a pass settling clears isProcessing
C2_KeepProcessingHolds ==
  [][/\ (isProcessing /\ (SwapCamera \/ (ModelBtnClick /\ isRunning)))
          => (~isRunning' /\ isProcessing')
     /\ (/\ \E i \in DOMAIN passes : passes[i].kept
         /\ isProcessing /\ ~isProcessing')
          => PassSettled]_vars

\* C3 as stated: the buffer holds at most 10 samples and the value a pass
\* publishes is the arithmetic mean of the buffer
C3_PublishedIsMean ==
  [][/\ Len(recentInferenceTimes') <= LatencyCapacity
     /\ (\E i \in DOMAIN passes : InferenceDone(i))
          => inferenceTimeText' * Len(recentInferenceTimes')
               = SumSeq(recentInferenceTimes')]_vars

LastSamples(s) ==
  IF Len(s) <= LatencyCapacity THEN s
  ELSE SubSeq(s, Len(s) - LatencyCapacity + 1, Len(s))

\* C3 amended: the buffer holds at most 10 samples, a completing pass
\* leaves in it the most recent up to 10 samples, and the value it
\* publishes is their arithmetic mean rounded to the nearest integer
\* (a half rounds upwards)
C3_PublishedIsRoundedMean ==
  [][/\ Len(recentInferenceTimes') <= LatencyCapacity
     /\ \A i \in DOMAIN passes : InferenceDone(i) =>
          LET n == Len(recentInferenceTimes')
              sum == SumSeq(recentInferenceTimes')
          IN /\ recentInferenceTimes' =
                  LastSamples(Append(recentInferenceTimes, now - passes[i].start))
             /\ 2 * n * inferenceTimeText' - n <= 2 * sum
             /\ 2 * sum < 2 * n * inferenceTimeText' + n]_vars

\* eleven passes completed: the buffer is full and has evicted a sample
C3_Witness ==
  /\ frameCount = LatencyCapacity + 1
  /\ Len(recentInferenceTimes) = LatencyCapacity
  /\ SumSeq(recentInferenceTimes) % LatencyCapacity # 0

\* C4: right after every Idle -> Running transition frameCount is 0,
\* lastFpsUpdate is the current time and the latency buffer is empty
C4_StartResets ==
  [][(~isRunning /\ isRunning')
       => /\ frameCount' = 0
          /\ lastFpsUpdate' = now'
          /\ recentInferenceTimes' = <<>>]_vars

\* C5: a tick starts a pass only if isRunning is true and isProcessing is
\* false; a tick that finds isProcessing true starts no pass and registers
\* the next tick; a tick that finds isRunning false starts nothing and
\* registers nothing
C5_TickGuard ==
  [][/\ PassStarted => (~isProcessing /\ isRunning' /\ isProcessing')
     /\ \A id \in rafQueue : AnimationFrame(id) =>
          /\ PassStarted => isRunning
          /\ (isRunning /\ isProcessing) =>
               /\ passes' = passes
               /\ animationId' \notin rafQueue \ {id}
               /\ rafQueue' = (rafQueue \ {id}) \cup {animationId'}
          /\ ~isRunning =>
               /\ passes' = passes
               /\ rafQueue' = rafQueue \ {id}
               /\ animationId' = animationId]_vars

\* a tick at time 1000 found the pass of time 0 in flight and re-armed
C5_Witness ==
  /\ isRunning /\ isProcessing /\ ~docHidden
  /\ Len(passes) = 1
  /\ ~passes[1].stopped
  /\ passes[1].start < lastFpsUpdate
  /\ animationId \in rafQueue

\* C6: a pass sets isProcessing when it starts and, when it settles,
\* clears isProcessing and adds exactly 1 to frameCount, whether it
\* succeeded or threw
C6_PassSettlement ==
  [][/\ PassStarted => isProcessing'
     /\ PassSettled => (~isProcessing' /\ frameCount' = frameCount + 1)]_vars

\* two passes have settled, one of them by throwing
C6_Witness ==
  /\ frameCount = 2
  /\ Len(recentInferenceTimes) = 1
  /\ passes = <<>>
  /\ ~isProcessing

\* C7: while the page is hidden, having been hidden while Running, no
\* pass starts and the scheduler stays Running with a tick registered
C7_HiddenSuppresses ==
  [][(hidRunning /\ hidRunning')
       => /\ ~PassStarted
          /\ isRunning'
          /\ animationId' \in rafQueue']_vars

\* C8: after stopCamera the scheduler is Idle with no tick registered and
\* no stream attached, and no pass starts while it is Idle
C8_StopLeavesIdle ==
  [][/\ StopCameraRan => (animationId' = 0 /\ rafQueue' = {} /\ ~srcObject')
     /\ ~isRunning' => ~PassStarted]_vars

\* C9: the detections of a pass that a stopCamera interrupted are never
\* drawn
C9_StaleNeverDrawn == canvas # "stale"

\* C10: loadModels calls dispose only when no pass is unsettled
C10_DisposeWhenDrained ==
  [][(\/ detectModel # "disposed" /\ detectModel' = "disposed"
      \/ poseModel # "disposed" /\ poseModel' = "disposed")
       => passes = <<>>]_vars

\* C11: a camera swap (flipCamera or the cameraSelect change listener, while
\* Running) releases the capture stream only when isProcessing is false and
\* no pass is in flight
C11_SwapWaitsForDrain ==
  [][SwapCamera => (~isProcessing /\ passes = <<>>)]_vars

\* C12: when a session start fails (getUserMedia rejects in startCamera, or
\* a from_pretrained call rejects in loadModels) the scheduler is Idle
\* afterwards: isRunning is false and no tick is registered
C12_StartFailureLeavesIdle ==
  [][(GetUserMediaReject \/ LoadFail)
       => (~isRunning' /\ rafQueue' = {})]_vars

\* the heads whose results a pass holds or awaits
PassHeads(p) ==
  (IF p.det THEN {"object"} ELSE {}) \cup (IF p.pose THEN {"pose"} ELSE {})
    \cup (IF p.seg THEN {"segment"} ELSE {})

\* the pass i accounts its latency and, while Running, draws its detections
FrameDelivered(i) ==
  /\ recentInferenceTimes' = PushLatency(recentInferenceTimes, now - passes[i].start)
  /\ isRunning => canvas' \in {"fresh", "stale"}

\* C13: when the inference of one head of a pass fails while another head
\* of the pass is enabled, the pass does not fail: it goes on without the
\* failed head (segmentation) or delivers the other heads' detections
\* (detection, pose)
C13_HeadFailureIsolated ==
  [][\A i \in DOMAIN passes :
       /\ (SegmentationDone(i, FALSE) /\ (passes[i].det \/ passes[i].pose))
            => (Len(passes') = Len(passes) /\ passes'[i].pc = "models")
       /\ (InferenceFail(i) /\ Cardinality(PassHeads(passes[i])) >= 2)
            => FrameDelivered(i)]_vars

\* C14: a failing pass never halts the scheduler: while Running a tick is
\* always registered, and whenever the scheduler is Running and visible
\* with no pass in flight (as it is after a pass threw) a tick eventually
\* starts a new pass, unless the scheduler stops or the page is hidden
C14_FailureNeverHalts ==
  /\ [](isRunning => animationId \in rafQueue)
  /\ (isRunning /\ ~docHidden /\ passes = <<>>)
       ~> (passes # <<>> \/ ~isRunning \/ docHidden)

\* a pass threw (a frame was counted and no latency sample taken) and the
\* next pass is in flight
C14_Witness ==
  /\ isRunning /\ ~docHidden
  /\ frameCount = 1 /\ recentInferenceTimes = <<>>
  /\ Len(passes) = 1 /\ passes[1].pc = "processor"

\* the detections of one type, in their order in dets
Group(dets, t) == SelectSeq(dets, LAMBDA d : d.type = t)

\* the types of dets follow the order of the sequence `order`
Ranked(dets, order) ==
  LET rank(t) == CHOOSE k \in DOMAIN order : order[k] = t
  IN \A i, j \in DOMAIN dets :
       i < j => rank(dets[i].type) <= rank(dets[j].type)

\* each group of dets is what its decoder returns for the arguments of the
\* call, in the decoder's row order
GroupsInRowOrder(dets) ==
  /\ Group(dets, "object") =
       (IF detectOutput.present
        THEN ObjectRows(detectOutput, 0, threshold, width, height) ELSE <<>>)
  /\ Group(dets, "pose") =
       (IF poseOutput.present
        THEN PoseRows(poseOutput, 0, threshold, width, height) ELSE <<>>)
  /\ Group(dets, "segment") =
       (IF segResults.present
        THEN ParseSegmentation(segResults, threshold, width, height)
        ELSE <<>>)

\* C15 as stated: the sequence parseDetections returns lists all
\* segmentation detections first, then all object detections, then all
\* pose detections, each group in its decoder's row order
C15_SegmentFirst ==
  [][ParseFrame
       => /\ Ranked(detections', <<"segment", "object", "pose">>)
          /\ GroupsInRowOrder(detections')]_vars

\* C15 amended: the sequence parseDetections returns lists all object
\* detections first, then all pose detections, then all segmentation
\* detections, each group in its decoder's row order; draw paints the
\* segmentation detections first, then the object detections, then the
\* pose detections, each group in the order of the sequence
C15_ObjectPoseSegment ==
  [][ParseFrame
       => /\ Ranked(detections', <<"object", "pose", "segment">>)
          /\ GroupsInRowOrder(detections')
          /\ Ranked(DrawOrder(detections'), <<"segment", "object", "pose">>)
          /\ \A t \in {"segment", "object", "pose"} :
               Group(DrawOrder(detections'), t) = Group(detections', t)]_vars

\* a call returned two detections of each of the three types
C15_Witness ==
  \A t \in {"segment", "object", "pose"} : Len(Group(detections, t)) = 2

\* the set of the detections of a sequence
DetectionSet(dets) == {dets[i] : i \in DOMAIN dets}

\* what parseDetections returns for the arguments of the call at threshold t
ParsedAt(t) ==
  ParseDetections(detectOutput, poseOutput, segResults, t, width, height)

\* C16: for the same head outputs and frame size, the set of detections
\* decoded at a threshold is a subset of the set decoded at any lower
\* threshold (and a superset of the set decoded at any higher one)
C16_ThresholdMonotone ==
  [][ParseFrame
       => \A t \in SliderValues :
            /\ t < threshold
                 => DetectionSet(detections') \subseteq DetectionSet(ParsedAt(t))
            /\ t > threshold
                 => DetectionSet(ParsedAt(t)) \subseteq DetectionSet(detections')]_vars

\* a call at threshold 0.6 returned detections of the three types, fewer
\* than the same outputs give at threshold 0.5
C16_Witness ==
  /\ threshold = 60
  /\ detections = ParsedAt(60)
  /\ \A t \in {"segment", "object", "pose"} :
       /\ Group(detections, t) # <<>>
       /\ Len(Group(detections, t)) < Len(Group(ParsedAt(50), t))

Slots == 0..(maxDetections - 1)

\* the class scores of slot i of a detection output
SlotScore(out, i, j) == out.scores[i * numClasses + j]

\* the highest class score of slot i
TopScore(out, i) ==
  CHOOSE s \in {SlotScore(out, i, j) : j \in 0..(numClasses - 1)} :
    \A j \in 0..(numClasses - 1) : SlotScore(out, i, j) <= s

\* the lowest class index that has the highest score of slot i
TopClass(out, i) ==
  CHOOSE j \in 0..(numClasses - 1) :
    /\ SlotScore(out, i, j) = TopScore(out, i)
    /\ \A k \in 0..(j - 1) : SlotScore(out, i, k) < TopScore(out, i)

\* the n-th slot, in increasing order, of a set of slots
NthSlot(slots, n) ==
  CHOOSE i \in slots : Cardinality({k \in slots : k < i}) = n - 1

\* C17: the object decoder yields at most one detection per candidate slot:
\* for each slot whose highest class score is >= threshold, and for no
\* other, one detection with that score and the lowest class index that has
\* it; the detections are in increasing slot order
C17_ObjectArgmax ==
  [][(ParseFrame /\ detectOutput.present)
       => LET objs == Group(detections', "object")
              admitted == {i \in Slots : TopScore(detectOutput, i) >= threshold}
          IN /\ Len(objs) = Cardinality(admitted)
             /\ \A n \in DOMAIN objs :
                  LET i == NthSlot(admitted, n)
                  IN /\ objs[n].score = TopScore(detectOutput, i)
                     /\ objs[n].classId = TopClass(detectOutput, i)
                     /\ objs[n].box =
                          CenterSizeBox(detectOutput.boxes[4 * i],
                                        detectOutput.boxes[4 * i + 1],
                                        detectOutput.boxes[4 * i + 2],
                                        detectOutput.boxes[4 * i + 3],
                                        width, height)]_vars

\* a call at threshold 0.6 on an output whose slot 0 has its best score
\* (0.7) in the last class and whose slot 1 has 0.5 as its best score:
\* slot 0 gave the first detection and slot 1 none
C17_Witness ==
  /\ detectOutput.present
  /\ threshold = 60
  /\ detections = ParsedAt(60)
  /\ TopClass(detectOutput, 0) = numClasses - 1
  /\ TopScore(detectOutput, 1) = 50
  /\ Group(detections, "object") # <<>>
  /\ Group(detections, "object")[1].classId = numClasses - 1
  /\ Len(Group(detections, "object")) < maxDetections

\* C18: with threshold 0 the object decoder emits a detection for every
\* candidate slot, a slot whose class scores are all 0 included (with score
\* 0); at any threshold every slot whose highest score equals the
\* threshold is emitted
C18_ThresholdZeroAdmitsAll ==
  [][(ParseFrame /\ detectOutput.present)
       => LET objs == Group(detections', "object")
          IN /\ threshold = 0 => Len(objs) = maxDetections
             /\ Cardinality({n \in DOMAIN objs : objs[n].score = threshold})
                  = Cardinality({i \in Slots :
                                   TopScore(detectOutput, i) = threshold})]_vars

\* a call at threshold 0 on an output whose slot 0 is all zero returned a
\* detection of score 0 and class 0 first
C18_Witness ==
  /\ detectOutput.present
  /\ threshold = 0
  /\ detections = ParsedAt(0)
  /\ TopScore(detectOutput, 0) = 0
  /\ Len(Group(detections, "object")) = maxDetections
  /\ Group(detections, "object")[1].score = 0
  /\ Group(detections, "object")[1].classId = 0

\* the rows of the pose output whose score is >= threshold
AdmittedPoseRows ==
  {i \in Slots : poseOutput.data[i * PoseStride + 4] >= threshold}

\* C19: every pose detection the pose decoder returns carries exactly 17
\* keypoints, keypoint k being triple k of its row (x and y scaled by the
\* frame size, the confidence as it is), whatever the confidences are
C19_SeventeenKeypoints ==
  [][(ParseFrame /\ poseOutput.present)
       => LET poses == Group(detections', "pose")
          IN /\ Len(poses) = Cardinality(AdmittedPoseRows)
             /\ \A n \in DOMAIN poses :
                  LET base == NthSlot(AdmittedPoseRows, n) * PoseStride + 6
                      kps == poses[n].keypoints
                  IN /\ Len(kps) = 17
                     /\ \A k \in 0..16 :
                          /\ kps[k + 1].x = 2 * poseOutput.data[base + 3 * k] * width
                          /\ kps[k + 1].y =
                               2 * poseOutput.data[base + 3 * k + 1] * height
                          /\ kps[k + 1].confidence =
                               poseOutput.data[base + 3 * k + 2]]_vars

\* a call returned a pose detection whose keypoint 0 has confidence 0.2,
\* below the visibility threshold, and whose keypoint 16 too
C19_Witness ==
  /\ poseOutput.present
  /\ Group(detections, "pose") # <<>>
  /\ Len(Group(detections, "pose")[1].keypoints) = 17
  /\ Group(detections, "pose")[1].keypoints[1].confidence = 20
  /\ Group(detections, "pose")[1].keypoints[17].confidence = 20

\* the slots of the detection output whose highest score is >= threshold
AdmittedSlots == {i \in Slots : TopScore(detectOutput, i) >= threshold}

\* the object detections of dets are one per admitted slot, each with the
\* rect ((cx - w/2) * W, (cy - h/2) * H, w * W, h * H) of its slot's
\* (cx, cy, w, h), whose center is (cx * W, cy * H); the detection of a
\* slot with score 0.7 and box (0.5, 0.5, 0.2, 0.4), decoded at threshold
\* 0.5 on a 640 x 640 frame, has the box `expected`
BoxDecode(dets, expected) ==
  LET objs == Group(dets, "object")
  IN /\ Len(objs) = Cardinality(AdmittedSlots)
     /\ \A n \in DOMAIN objs :
          LET i == NthSlot(AdmittedSlots, n)
              cx == detectOutput.boxes[4 * i]
              cy == detectOutput.boxes[4 * i + 1]
              w == detectOutput.boxes[4 * i + 2]
              h == detectOutput.boxes[4 * i + 3]
              box == objs[n].box
          IN /\ box = <<(2 * cx - w) * width, (2 * cy - h) * height,
                        2 * w * width, 2 * h * height>>
             /\ 2 * box[1] + box[3] = 4 * cx * width
             /\ 2 * box[2] + box[4] = 4 * cy * height
             /\ (/\ threshold = 50 /\ width = 640 /\ height = 640
                 /\ objs[n].score = 70
                 /\ <<cx, cy, w, h>> = <<50, 50, 20, 40>>)
                  => box = expected

\* C20 as stated: the object decoder converts (cx, cy, w, h) on a W x H
\* frame into the rect ((cx - w/2) * W, (cy - h/2) * H, w * W, h * H), and
\* the row with score 0.7 and box (0.5, 0.5, 0.2, 0.4) at threshold 0.5 on
\* a 640 x 640 frame gives the box (192, 128, 128, 256)
C20_BoxDecodeAsStated ==
  [][(ParseFrame /\ detectOutput.present)
       => BoxDecode(detections', <<Px(192), Px(128), Px(128), Px(256)>>)]_vars

\* C20 amended: the same conversion, and the row with score 0.7 and box
\* (0.5, 0.5, 0.2, 0.4) at threshold 0.5 on a 640 x 640 frame gives the box
\* (256, 192, 128, 256)
C20_BoxDecode ==
  [][(ParseFrame /\ detectOutput.present)
       => BoxDecode(detections', <<Px(256), Px(192), Px(128), Px(256)>>)]_vars

\* a call at threshold 0.5 on a 640 x 640 frame returned exactly one object
\* detection, of score 0.7, for a slot with box (0.5, 0.5, 0.2, 0.4)
C20_Witness ==
  /\ detectOutput.present
  /\ threshold = 50 /\ width = 640 /\ height = 640
  /\ detections = ParsedAt(50)
  /\ Len(Group(detections, "object")) = 1
  /\ Group(detections, "object")[1].score = 70
  /\ Group(detections, "object")[1].box = <<Px(256), Px(192), Px(128), Px(256)>>
  /\ \E i \in AdmittedSlots :
       [k \in 1..4 |-> detectOutput.boxes[4 * i + k - 1]] = <<50, 50, 20, 40>>

\* the object detections of a sequence
ObjectDetections(dets) == {dets[n] : n \in {m \in DOMAIN dets : dets[m].type = "object"}}

\* C21: the label of an object detection of class c is the id2label
\* override of c when the model supplies one, else the COCO_CLASSES name of
\* c when c is in the table, else the string "Class c"
C21_LabelSources ==
  \A d \in ObjectDetections(detections) :
    LET c == d.classId
    IN /\ c \in DOMAIN id2label => d.label = id2label[c]
       /\ c \notin DOMAIN id2label /\ c < Len(COCO_CLASSES)
            => d.label = COCO_CLASSES[c + 1]
       /\ c \notin DOMAIN id2label /\ c >= Len(COCO_CLASSES)
            => d.label = "Class " \o ToString(c)

\* one frame holds an object labelled by the override and an object of a
\* class without override, labelled from COCO_CLASSES
C21_Witness ==
  /\ \E d \in ObjectDetections(detections) :
       d.classId \in DOMAIN id2label /\ d.label = "pedestrian"
  /\ \E d \in ObjectDetections(detections) :
       d.classId \notin DOMAIN id2label /\ d.label = "bicycle"

\* the segmentation detections of a sequence
SegmentDetections(dets) ==
  {dets[n] : n \in {m \in DOMAIN dets : dets[m].type = "segment"}}

\* C22: what is painted for a segmentation detection is a per-pixel mask
\* reconstructed from its 32 coefficients and the prototypes: a grid of the
\* prototype grid's dimensions with alpha values in 0..255, uniformly
\* sigmoid(0) = 0.5 (128 of 255) when every coefficient is 0
C22_MaskReconstructed ==
  \A d \in SegmentDetections(detections) :
    LET m == DrawSegmentationMask(d)
    IN /\ m.shape = "mask"
       /\ m.width = d.maskSize /\ m.height = d.maskSize
       /\ \A a \in {m.alpha[c] : c \in DOMAIN m.alpha} : a \in 0..255
       /\ (\A j \in DOMAIN d.maskCoeffs : d.maskCoeffs[j] = 0)
            => \A c \in DOMAIN m.alpha : m.alpha[c] = 128

\* a call of runDetectionLoop that finds state.isRunning true: an animation
\* frame callback, or the call that ends startCamera
TickWhileRunning ==
  \/ isRunning /\ \E id \in rafQueue : AnimationFrame(id)
  \/ metaWaiter /\ LoadedMetadata

\* C23: a tick executed while Running publishes frameCount, zeroes it and
\* sets lastFpsUpdate to now if now - lastFpsUpdate >= 1000, and otherwise
\* leaves the three alone; between ticks frameCount grows by exactly one per
\* pass that settles, so the sample published is the number of passes
\* settled since the previous publication
C23_FpsSample ==
  [][/\ TickWhileRunning =>
          IF now - lastFpsUpdate >= 1000
          THEN fpsText' = frameCount /\ frameCount' = 0 /\ lastFpsUpdate' = now
          ELSE UNCHANGED <<frameCount, lastFpsUpdate, fpsText>>
     /\ ~TickWhileRunning =>
          /\ frameCount' = frameCount + (IF PassSettled THEN 1 ELSE 0)
          /\ lastFpsUpdate' = lastFpsUpdate]_vars

\* a tick found now - lastFpsUpdate = 1000 exactly and published the one
\* pass settled since the publication before it
C23_Witness ==
  /\ isRunning /\ now = 3 * HalfStep
  /\ lastFpsUpdate = now - HalfStep
  /\ lastFpsUpdate >= 1000
  /\ fpsText = 1 /\ frameCount = 0

\* C28: when Promise.all of a pass resolves, the output given to the object
\* decoder is the detection head's or none, and the output given to the
\* pose decoder is the pose head's or none, whatever the toggles did while
\* the pass awaited the provider
C28_HeadOutputsMatched ==
  [][\A i \in DOMAIN passes :
       InferenceDone(i) =>
         /\ DetectArg(passes[i]) \in {"detect", "null", "undefined"}
         /\ PoseArg(passes[i]) \in {"pose", "null", "undefined"}]_vars

\* the processFrame promise of pass i resolves in this step: the pass
\* reached the end of processFrame or its early return
PassResolved(i) ==
  /\ PassSettled
  /\ \/ ProcessorDone(i) /\ ~CallsNullModel
     \/ \E ok \in BOOLEAN : SegmentationDone(i, ok)
     \/ InferenceDone(i) /\ ~ParseThrows(passes[i])

\* buf with the sample t appended, the oldest sample evicted when buf
\* already holds 10
Appended(buf, t) ==
  IF Len(buf) = LatencyCapacity THEN Tail(buf) \o <<t>> ELSE buf \o <<t>>

\* C24: every pass that completes appends exactly one sample, its duration,
\* to recentInferenceTimes, whichever heads are enabled, and the buffer
\* changes in no other step
C24_OneSamplePerPass ==
  [][/\ \A i \in DOMAIN passes :
          PassResolved(i) =>
            recentInferenceTimes'
              = Appended(recentInferenceTimes, now - passes[i].start)
     /\ recentInferenceTimes' # recentInferenceTimes
          => \E i \in DOMAIN passes : PassResolved(i)]_vars

\* C25: the box of every detection a decoder returns has width >= 0 and
\* height >= 0, also for admitted rows whose corner fields are inverted or
\* whose size fields are negative
C25_BoxNonNegative ==
  \A n \in DOMAIN detections :
    detections[n].box[3] >= 0 /\ detections[n].box[4] >= 0

\* C26: when the segmentation outputs do not have the expected layout, a
\* call of parseDetections returns what it returns without a segmentation
\* result: no segmentation detection, and the object and pose detections
\* unchanged
C26_MalformedSegmentDropped ==
  [][(ParseFrame /\ Malformed(segResults)) =>
       detections' = ParseDetections(detectOutput, poseOutput, NoOutput,
                                     threshold, width, height)]_vars

\* the pose detections of a sequence
PoseDetections(dets) ==
  {dets[n] : n \in {m \in DOMAIN dets : dets[m].type = "pose"}}

\* the bones of a sequence of bones
BoneSet(bones) == {bones[n] : n \in DOMAIN bones}

\* C27: the skeleton is a list of 16 bones whose endpoints are keypoint
\* indices in 0..16, and a bone (i, j) of a pose detection is drawn if and
\* only if the confidences of keypoints i and j are both >= 0.3, whatever
\* the detection threshold is
C27_SkeletonBones ==
  /\ Len(skeleton) = 16
  /\ \A n \in DOMAIN skeleton :
       skeleton[n][1] \in 0..16 /\ skeleton[n][2] \in 0..16
  /\ \A d \in PoseDetections(detections) :
       \A n \in DOMAIN skeleton :
         LET kpA == d.keypoints[skeleton[n][1] + 1]
             kpB == d.keypoints[skeleton[n][2] + 1]
         IN skeleton[n] \in BoneSet(DrawnBones(d))
              <=> (kpA.confidence >= 30 /\ kpB.confidence >= 30)

\* after the slider moved to 0.6, a pose detection has a bone that is drawn
\* and a bone that is not, one of its endpoints being at confidence 0.2
C27_Witness ==
  /\ threshold = 60
  /\ \E d \in PoseDetections(detections) :
       /\ \E b \in BoneSet(skeleton) : b \in BoneSet(DrawnBones(d))
       /\ \E b \in BoneSet(skeleton) :
            /\ b \notin BoneSet(DrawnBones(d))
            /\ d.keypoints[b[1] + 1].confidence = 20
            /\ d.keypoints[b[2] + 1].confidence = 90

\* C29: the drain wait of loadModels ends once no pass is in flight: from
\* every state in which loadModels polls and every pass has settled, the
\* poll loop is eventually left
C29_DrainTerminates ==
  (loadPc = "poll" /\ passes = <<>>) ~> (loadPc # "poll")

\* C30: whenever the scheduler is Running, the page is visible, the models
\* are loaded and no pass is in flight, isProcessing is false, and a tick
\* run in such a state starts a pass
C30_FlagNeverStuck ==
  /\ []((isRunning /\ ~docHidden /\ detectModel # "null" /\ processor
           /\ passes = <<>>) => ~isProcessing)
  /\ [][\A id \in rafQueue :
          (/\ AnimationFrame(id)
           /\ isRunning /\ ~docHidden /\ detectModel # "null" /\ processor
           /\ passes = <<>>) => PassStarted]_vars

\* the session was stopped or swapped with a pass in flight and started
\* again, that pass has drawn and settled, and the scheduler is Running and
\* visible with the flag clear
C30_Witness ==
  /\ isRunning /\ ~docHidden /\ detectModel # "null" /\ processor
  /\ passes = <<>> /\ ~isProcessing
  /\ canvas = "stale"

\* C31: at most one runDetectionLoop callback is registered with the host,
\* and state.animationId names it
C31_OneTickChain ==
  /\ Cardinality(rafQueue) <= 1
  /\ rafQueue \subseteq {animationId}

\* the capture streams that were acquired and whose tracks were not stopped:
\* the one video.srcObject holds and the ones overwritten there
StreamsHeld == (IF srcObject THEN 1 ELSE 0) + leaked

\* a startCamera call has not finished: it awaits getUserMedia or
\* loadedmetadata
StartPending == camPending > 0 \/ metaWaiter

\* C32: at most one capture stream is held, every stream acquired is
\* released by a later stopCamera, and no stream is held while the scheduler
\* is Idle with no startCamera pending
C32_OneStream ==
  /\ StreamsHeld <= 1
  /\ (~isRunning /\ ~StartPending) => StreamsHeld = 0

\* C33: stopCamera sets the published FPS and average inference time to 0,
\* and no step taken while the scheduler is Idle and stays Idle changes
\* them, the completion of a pass that was in flight at the stop included
C33_StatsStayZero ==
  [][/\ StopCameraRan => (fpsText' = 0 /\ inferenceTimeText' = 0)
     /\ (~isRunning /\ ~isRunning')
          => UNCHANGED <<fpsText, inferenceTimeText>>]_vars

====
